---- MODULE Spec2Model ----
(***************************************************************************)
(* A model of rpt.py (VRConservation/auto-report): ReportGenerator and     *)
(* main.  The state is the generator's fields, the files the program reads *)
(* and writes (reports/, the workbook, the markdown overrides), the open   *)
(* matplotlib figures of the process, and the position of main.            *)
(*                                                                         *)
(* Text is a sequence of tokens.  A token is a character record            *)
(* [ch |-> c] or an opaque word (any other record): a run of characters    *)
(* that holds no whitespace and does not start with a bullet marker.       *)
(* Numbers are integers; a percentage is kept in tenths of a percent       *)
(* (the code prints it with one decimal).                                  *)
(***************************************************************************)
EXTENDS Integers, Sequences, FiniteSets, TLC

VARIABLES
    pc,            \* position of main / generate_report
    fs,            \* the set of files that exist in reports/
    today,         \* datetime.now() date read by __init__
    output_arg,    \* args.output: the caller's name, or NoName
    output_file,   \* self.output_file
    probes,        \* exists() calls of the last __init__ that returned True
    excel,         \* content of the workbook self.excel_file (or Missing)
    md_files,      \* content of the markdown override files (or NoFile)
    data,          \* self.data
    document,      \* self.document: the blocks appended so far
    key_points,    \* the key_points list built by add_key_points
    chart_result,  \* what add_budget_chart returned
    figures,       \* matplotlib figures open in the process
    success,       \* what generate_report returned
    exit_code,     \* what main returned
    runs           \* runs of main started in this process

vars == <<pc, fs, today, output_arg, output_file, probes, excel, md_files, data,
          document, key_points, chart_result, figures, success, exit_code, runs>>

\* self.data = None; a workbook that is not there or cannot be read
None == [none |-> TRUE]
Missing == [missing |-> TRUE]

\* ------------------------------------------------------------------ bounds

MaxRows == 2
MaxRuns == 2
MaxLines == 4

\* ------------------------------------------------------------------ text

Ch(c) == [ch |-> c]
SP == Ch(" ")
NL == Ch("\n")
DASH == Ch("-")
STAR == Ch("*")
Word(w) == [word |-> w]

IsSpace(t) == t = SP \/ t = NL

RECURSIVE LStrip(_)
LStrip(s) == IF s # <<>> /\ IsSpace(Head(s)) THEN LStrip(Tail(s)) ELSE s

RECURSIVE RStrip(_)
RStrip(s) ==
    IF s # <<>> /\ IsSpace(s[Len(s)]) THEN RStrip(SubSeq(s, 1, Len(s) - 1)) ELSE s

\* str.strip()
Strip(s) == RStrip(LStrip(s))

\* str.split(sep) for sep = '\n\n' (doubled) or '\n': the pieces between the
\* non-overlapping occurrences of sep, scanned from the left.
RECURSIVE SplitFrom(_, _, _, _)
SplitFrom(s, i, cur, doubled) ==
    IF i > Len(s) THEN <<cur>>
    ELSE IF doubled /\ i < Len(s) /\ s[i] = NL /\ s[i + 1] = NL
         THEN <<cur>> \o SplitFrom(s, i + 2, <<>>, doubled)
    ELSE IF ~doubled /\ s[i] = NL
         THEN <<cur>> \o SplitFrom(s, i + 1, <<>>, doubled)
    ELSE SplitFrom(s, i + 1, Append(cur, s[i]), doubled)

\* content.split('\n\n')
SplitParagraphs(s) == SplitFrom(s, 1, <<>>, TRUE)

\* para.split('\n')
SplitLines(s) == SplitFrom(s, 1, <<>>, FALSE)

\* s.startswith('- ') or s.startswith('* ')
StartsWithBullet(s) ==
    Len(s) >= 2 /\ (s[1] = DASH \/ s[1] = STAR) /\ s[2] = SP

\* "\n".join(lines)
RECURSIVE JoinLines(_)
JoinLines(lines) ==
    IF lines = <<>> THEN <<>>
    ELSE IF Len(lines) = 1 THEN lines[1]
    ELSE lines[1] \o <<NL>> \o JoinLines(Tail(lines))

RECURSIVE Flatten(_)
Flatten(ss) == IF ss = <<>> THEN <<>> ELSE Head(ss) \o Flatten(Tail(ss))

\* the indices i in lo..hi with test[i], in order
RECURSIVE SelectIdx(_, _, _)
SelectIdx(test, lo, hi) ==
    IF lo > hi THEN <<>>
    ELSE (IF test[lo] THEN <<lo>> ELSE <<>>) \o SelectIdx(test, lo + 1, hi)

\* ------------------------------------------------------------------ blocks

Heading(text, level) == [style |-> "Heading", text |-> text, level |-> level]
Paragraph(text) == [style |-> "Normal", text |-> text]
ListBullet(text) == [style |-> "List Bullet", text |-> text]

\* ------------------------------------------------------- markdown content

\* A file of the working directory: its text, or no file.
File(text) == [exists |-> TRUE, text |-> text]
NoFile == [exists |-> FALSE, text |-> <<>>]

\* read_markdown_file: the stripped content; exists = FALSE stands for None
read_markdown_file(filename) ==
    IF md_files[filename].exists
    THEN File(Strip(md_files[filename].text))
    ELSE NoFile

\* The blocks one paragraph group adds (the body of the for loop).
RenderParagraph(rawpara) ==
    LET para == Strip(rawpara)
        lines == SplitLines(para)
    IN  IF para = <<>> THEN <<>>
        ELSE IF StartsWithBullet(para)
        THEN LET keep == SelectIdx([i \in 1..Len(lines) |->
                                       StartsWithBullet(Strip(lines[i]))],
                                   1, Len(lines))
             IN  [k \in 1..Len(keep) |->
                     ListBullet(SubSeq(Strip(lines[keep[k]]), 3,
                                       Len(Strip(lines[keep[k]]))))]
        ELSE <<Paragraph(para)>>

\* add_markdown_content: the blocks it appends to the document
MarkdownBlocks(filename, default_content) ==
    LET read == read_markdown_file(filename)
        empty == ~read.exists \/ read.text = <<>>
        content == IF empty THEN default_content ELSE read.text
        paragraphs == SplitParagraphs(content)
    IN  IF empty /\ default_content = <<>> THEN <<>>
        ELSE Flatten([i \in 1..Len(paragraphs) |-> RenderParagraph(paragraphs[i])])

\* ------------------------------------------------------------- file names

\* A path in reports/: {stem}.docx, {stem}_v{ver}.docx or {stem}_{ts}.docx
Path(stem, ver, ts) == [stem |-> stem, ver |-> ver, ts |-> ts]

\* reports_dir / f'project_report_{date}.docx'
BasePath(date) == Path([name |-> "project_report", date |-> date], 0, "")

\* parent_dir / f"{name_stem}_v{counter}{extension}"
Versioned(base, counter) == Path(base.stem, counter, "")

\* parent_dir / f"{name_stem}_{timestamp}{extension}"
Stamped(base, timestamp) == Path(base.stem, 0, timestamp)

\* the last version number the loop probes
MaxCounter == 100

LoopLimitOffByOne(counter) == counter >= MaxCounter

\* the safety break: if counter > 100
LoopLimit(counter) == counter > MaxCounter

\* The while loop of _get_unique_filename from `counter` on.  probes is the
\* number of exists() calls that returned True: the one of base_filepath and
\* those of the versions 2 .. counter - 1 (and of `counter`, at the break).
RECURSIVE ProbeFrom(_, _, _, _)
ProbeFrom(base, counter, files, now) ==
    IF Versioned(base, counter) \notin files
    THEN [path |-> Versioned(base, counter), probes |-> counter - 1]
    ELSE IF LoopLimit(counter + 1)
    THEN [path |-> Stamped(base, now), probes |-> counter]
    ELSE ProbeFrom(base, counter + 1, files, now)

\* _get_unique_filename(base_filepath), with the files that exist and the
\* wall-clock time a fallback would read
get_unique_filename(base, files, now) ==
    IF base \notin files
    THEN [path |-> base, probes |-> 0]
    ELSE ProbeFrom(base, 2, files, now)

\* ------------------------------------------------------------------ tables

Tasks == {"Design", "Build", "TOTALS"}
Budgets == {0, 1000}
Remainders == {0, 500}

ColumnSets == {<<"Task", "Budgeted", "Remaining">>, <<"Task", "Budgeted">>,
               <<"Task", "Remaining">>, <<"Budgeted", "Remaining">>}

RowsOf(cols) ==
    IF cols = <<"Task", "Budgeted", "Remaining">>
    THEN {[Task |-> t, Budgeted |-> b, Remaining |-> r] :
             t \in Tasks, b \in Budgets, r \in Remainders}
    ELSE IF cols = <<"Task", "Budgeted">>
    THEN {[Task |-> t, Budgeted |-> b] : t \in Tasks, b \in Budgets}
    ELSE IF cols = <<"Task", "Remaining">>
    THEN {[Task |-> t, Remaining |-> r] : t \in Tasks, r \in Remainders}
    ELSE {[Budgeted |-> b, Remaining |-> r] : b \in Budgets, r \in Remainders}

\* The workbooks pd.read_excel can return: a header and up to MaxRows rows.
Tables ==
    UNION {{[columns |-> cols, rows |-> rs] :
               rs \in UNION {[1..n -> RowsOf(cols)] : n \in 0..MaxRows}} :
           cols \in ColumnSets}

\* scenario A of the documentation
ScenarioA ==
    [columns |-> <<"Task", "Budgeted", "Remaining">>,
     rows |-> <<[Task |-> "Design", Budgeted |-> 1000, Remaining |-> 200],
                [Task |-> "Build", Budgeted |-> 2000, Remaining |-> 500],
                [Task |-> "TOTALS", Budgeted |-> 3000, Remaining |-> 700]>>]

\* 'name' in self.data.columns
HasColumn(table, name) == \E i \in 1..Len(table.columns) : table.columns[i] = name

\* self.data[name].sum()
RECURSIVE SumRows(_, _)
SumRows(rows, name) ==
    IF rows = <<>> THEN 0 ELSE Head(rows)[name] + SumRows(Tail(rows), name)

\* a / b to the nearest integer, ties to even (b > 0)
RoundDiv(a, b) ==
    LET q == a \div b
        r == a % b
    IN  IF 2 * r < b THEN q
        ELSE IF 2 * r > b THEN q + 1
        ELSE IF q % 2 = 0 THEN q ELSE q + 1

\* ((total_budgeted - total_remaining) / total_budgeted * 100)
\*     if total_budgeted > 0 else 0, in tenths of a percent
UtilizationRate(total_budgeted, total_remaining) ==
    IF total_budgeted > 0
    THEN RoundDiv((total_budgeted - total_remaining) * 1000, total_budgeted)
    ELSE 0

\* A float of the Utilization% column: finite (tenths of a percent), or one
\* of the values a division by zero gives.
Fin(tenths) == [cls |-> "finite", tenths |-> tenths]
NaN == [cls |-> "nan", tenths |-> 0]
PosInf == [cls |-> "inf", tenths |-> 0]
NegInf == [cls |-> "-inf", tenths |-> 0]

\* ((Budgeted - Remaining) / Budgeted * 100).round(1) of one row: pandas
\* divides floats, so a zero Budgeted gives nan (0/0) or an infinity.
RowUtilization(budgeted, remaining) ==
    IF budgeted = 0
    THEN IF budgeted - remaining = 0 THEN NaN
         ELSE IF budgeted - remaining > 0 THEN PosInf ELSE NegInf
    ELSE IF budgeted > 0
    THEN Fin(RoundDiv((budgeted - remaining) * 1000, budgeted))
    ELSE Fin(RoundDiv((remaining - budgeted) * 1000, -budgeted))

\* a < b on floats (false when either is nan)
FloatLess(a, b) ==
    /\ a.cls # "nan" /\ b.cls # "nan"
    /\ \/ a.cls = "-inf" /\ b.cls # "-inf"
       \/ b.cls = "inf" /\ a.cls # "inf"
       \/ a.cls = "finite" /\ b.cls = "finite" /\ a.tenths < b.tenths

\* --------------------------------------------------------------- sections

\* create_document: Document() and the title heading
TitleBlocks == <<Heading(<<Word("Budget Report - {date}")>>, 0)>>

\* default_intro: two paragraphs separated by a blank line
default_intro ==
    <<Word("This report provides ... as of {date}."), NL, NL,
      Word("Key metrics include ... indicators.")>>

\* add_introduction: the blocks it appends
IntroductionBlocks ==
    <<Heading(<<Word("Executive Summary")>>, 1)>>
        \o MarkdownBlocks("introduction.md", default_intro)

\* total_budgeted, total_remaining and utilization_rate of add_budget_table
TableTotals(table) ==
    LET total_budgeted == IF HasColumn(table, "Budgeted")
                          THEN SumRows(table.rows, "Budgeted") ELSE 0
        total_remaining == IF HasColumn(table, "Remaining")
                           THEN SumRows(table.rows, "Remaining") ELSE 0
    IN  [total_budgeted |-> total_budgeted,
         total_remaining |-> total_remaining,
         utilization_rate |-> UtilizationRate(total_budgeted, total_remaining)]

\* summary_text: the three numbers it prints
SummaryText(table) == <<[summary |-> TableTotals(table)]>>

\* the table block: one header cell per column of self.data, one row per row
TableBlock(table) ==
    [style |-> "Table Grid", header |-> table.columns, cells |-> table.rows]

\* add_budget_table: the blocks it appends (self.data is not None)
BudgetTableBlocks(table) ==
    <<Heading(<<Word("Budget Allocation Details")>>, 1),
      Paragraph(SummaryText(table)),
      TableBlock(table)>>

\* self.data['Utilization%'] = ...: the column is added, or replaced
WithUtilization(table) ==
    [columns |-> IF HasColumn(table, "Utilization%") THEN table.columns
                 ELSE Append(table.columns, "Utilization%"),
     rows |-> [i \in 1..Len(table.rows) |->
                  [c \in DOMAIN table.rows[i] \cup {"Utilization%"} |->
                      IF c = "Utilization%"
                      THEN RowUtilization(table.rows[i].Budgeted,
                                          table.rows[i].Remaining)
                      ELSE table.rows[i][c]]]]

\* the row labels of self.data[self.data['Task'] != 'TOTALS'], or of self.data
NonTotal(table) ==
    SelectIdx([i \in 1..Len(table.rows) |->
                  IF HasColumn(table, "Task")
                  THEN table.rows[i].Task # "TOTALS" ELSE TRUE],
              1, Len(table.rows))

Util(table, i) == table.rows[i]["Utilization%"]

\* idxmax / idxmin over the labels idx: nan is skipped, the first of equal
\* values wins.  Defined when some value is not nan.
IdxMax(table, idx) ==
    idx[CHOOSE k \in 1..Len(idx) :
            /\ Util(table, idx[k]).cls # "nan"
            /\ \A j \in 1..Len(idx) :
                   /\ ~FloatLess(Util(table, idx[k]), Util(table, idx[j]))
                   /\ (j < k /\ Util(table, idx[j]).cls # "nan")
                          => FloatLess(Util(table, idx[j]), Util(table, idx[k]))]

IdxMin(table, idx) ==
    idx[CHOOSE k \in 1..Len(idx) :
            /\ Util(table, idx[k]).cls # "nan"
            /\ \A j \in 1..Len(idx) :
                   /\ ~FloatLess(Util(table, idx[j]), Util(table, idx[k]))
                   /\ (j < k /\ Util(table, idx[j]).cls # "nan")
                          => FloatLess(Util(table, idx[k]), Util(table, idx[j]))]

GenericKeyPoints ==
    <<Word("Budget tracking is current and accurate"),
      Word("All expenditures are within approved parameters"),
      Word("Financial controls are operating effectively"),
      Word("Regular monitoring continues as scheduled")>>

\* the four sentences of the dynamic key_points list
DynamicKeyPoints(table, hi, lo) ==
    LET total_budgeted == SumRows(table.rows, "Budgeted")
        total_remaining == SumRows(table.rows, "Remaining")
    IN  <<[insight |-> "Overall budget utilization stands at",
           rate |-> UtilizationRate(total_budgeted, total_remaining)],
          [insight |-> "Highest utilization", task |-> table.rows[hi].Task,
           rate |-> Util(table, hi)],
          [insight |-> "Lowest utilization", task |-> table.rows[lo].Task,
           rate |-> Util(table, lo)],
          [insight |-> "Total remaining funds", total |-> total_remaining]>>

\* add_key_points up to the default list: the data it leaves, the list, and
\* whether it raised (idxmax of an all-nan column, or the row's missing 'Task')
KeyPoints(table) ==
    IF ~(HasColumn(table, "Budgeted") /\ HasColumn(table, "Remaining"))
    THEN [data |-> table, key_points |-> GenericKeyPoints, raised |-> FALSE]
    ELSE
    LET t == WithUtilization(table)
        non_total == NonTotal(t)
    IN  IF Len(t.rows) > 1 /\ Len(non_total) > 0
        THEN IF \/ \A k \in 1..Len(non_total) : Util(t, non_total[k]).cls = "nan"
                \/ ~HasColumn(t, "Task")
             THEN [data |-> t, key_points |-> <<>>, raised |-> TRUE]
             ELSE [data |-> t,
                   key_points |-> DynamicKeyPoints(t, IdxMax(t, non_total),
                                                   IdxMin(t, non_total)),
                   raised |-> FALSE]
        ELSE [data |-> t, key_points |-> GenericKeyPoints, raised |-> FALSE]

\* "\n".join([f"- {point}" for point in key_points])
DefaultKeyPoints(points) ==
    JoinLines([i \in 1..Len(points) |-> <<DASH, SP, points[i]>>])

\* chart_data.plot(...) gets as far as a figure: x='Task' and both y columns
\* are columns of the frame, and there is a row to plot
Plottable(table) ==
    /\ HasColumn(table, "Task")
    /\ HasColumn(table, "Budgeted")
    /\ HasColumn(table, "Remaining")
    /\ table.rows # <<>>

chart_desc == <<Word("The chart below provides a visual comparison ...")>>

Image == [style |-> "Picture", text |-> <<Word("budget_chart.png")>>]

\* --------------------------------------------------------- generate_report

GenerateStepsFindingsFirst ==
    <<"load_data", "create_document", "add_introduction", "add_key_points",
      "add_budget_table", "add_budget_chart", "save_document">>

\* the calls of generate_report, in order
GenerateSteps ==
    <<"load_data", "create_document", "add_introduction", "add_budget_table",
      "add_key_points", "add_budget_chart", "save_document">>

\* where generate_report goes after a call that returned normally
StepAfter(step) ==
    LET i == CHOOSE k \in 1..Len(GenerateSteps) : GenerateSteps[k] = step
    IN  IF i = Len(GenerateSteps) THEN "return" ELSE GenerateSteps[i + 1]

\* ------------------------------------------------------------------ inputs

Dates == {"2025-01-25", "2025-01-26"}
Times == {"101500", "101501"}

NoName == [noname |-> TRUE]
NoPath == Path([name |-> "", date |-> ""], 0, "")

\* names a caller passes as --output
CustomNames ==
    {Path([name |-> "custom", date |-> ""], 0, ""),
     Versioned(BasePath("2025-01-25"), 2)}

MdNames == {"introduction.md", "key_points.md", "chart_description.md"}
NoOverrides == [f \in MdNames |-> NoFile]

\* override files of the pipeline runs
Overrides ==
    {NoOverrides,
     [NoOverrides EXCEPT
         !["key_points.md"] =
             File(<<DASH, SP, Word("on track"), NL, STAR, SP, Word("no risks")>>),
         !["introduction.md"] =
             File(<<DASH, SP, Word("scope"), NL, Word("and a plain line")>>)]}

\* lines of an override file
MdLines ==
    {<<>>, <<SP>>, <<DASH, SP, Word("a")>>, <<STAR, SP, Word("b")>>,
     <<Word("c")>>, <<DASH, Word("d")>>, <<SP, DASH, SP, Word("e")>>}

Contents ==
    {JoinLines(ls) : ls \in UNION {[1..n -> MdLines] : n \in 0..MaxLines}}

\* files another program may have left in reports/
EnvFiles ==
    {BasePath("2025-01-25"), Versioned(BasePath("2025-01-25"), 2),
     Versioned(BasePath("2025-01-25"), 3),
     Stamped(BasePath("2025-01-25"), "101500"),
     Path([name |-> "custom", date |-> ""], 0, "")}

\* ----------------------------------------------------------- environment

\* another program creates a report file between two runs
EnvCreate ==
    /\ pc = "idle"
    /\ \E f \in EnvFiles : f \notin fs /\ fs' = fs \cup {f}
    /\ UNCHANGED <<pc, today, output_arg, output_file, probes, excel, md_files,
                   data, document, key_points, chart_result, figures, success,
                   exit_code, runs>>

\* a directory that already holds the versions _v2 .. _vK of a day's report
EnvFill ==
    /\ pc = "idle"
    /\ \E k \in {MaxCounter - 1, MaxCounter} :
           /\ Versioned(BasePath("2025-01-25"), k) \notin fs
           /\ fs' = fs \cup {Versioned(BasePath("2025-01-25"), j) : j \in 2..k}
    /\ UNCHANGED <<pc, today, output_arg, output_file, probes, excel, md_files,
                   data, document, key_points, chart_result, figures, success,
                   exit_code, runs>>

\* ------------------------------------------------------------------ actions

\* main up to ReportGenerator(args.input, args.output): __init__
Construct(names, dates) ==
    /\ pc = "idle"
    /\ runs < MaxRuns
    /\ \E arg \in names \cup {NoName}, d \in dates, now \in Times :
           LET r == get_unique_filename(BasePath(d), fs, now)
           IN  /\ output_arg' = arg
               /\ today' = d
               /\ output_file' = IF arg = NoName THEN r.path ELSE arg
               /\ probes' = IF arg = NoName THEN r.probes ELSE 0
    /\ data' = None
    /\ document' = <<>>
    /\ key_points' = <<>>
    /\ chart_result' = "none"
    /\ success' = FALSE
    /\ exit_code' = -1
    /\ runs' = runs + 1
    /\ pc' = GenerateSteps[1]
    /\ UNCHANGED <<fs, excel, md_files, figures>>

\* load_data, and generate_report's return False when it fails
LoadData ==
    /\ pc = "load_data"
    /\ IF excel = Missing
       THEN /\ pc' = "return"
            /\ UNCHANGED data
       ELSE /\ data' = excel
            /\ pc' = StepAfter("load_data")
    /\ UNCHANGED <<fs, today, output_arg, output_file, probes, excel, md_files,
                   document, key_points, chart_result, figures, success,
                   exit_code, runs>>

CreateDocument ==
    /\ pc = "create_document"
    /\ document' = TitleBlocks
    /\ pc' = StepAfter("create_document")
    /\ UNCHANGED <<fs, today, output_arg, output_file, probes, excel, md_files,
                   data, key_points, chart_result, figures, success, exit_code,
                   runs>>

AddIntroduction ==
    /\ pc = "add_introduction"
    /\ document' = document \o IntroductionBlocks
    /\ pc' = StepAfter("add_introduction")
    /\ UNCHANGED <<fs, today, output_arg, output_file, probes, excel, md_files,
                   data, key_points, chart_result, figures, success, exit_code,
                   runs>>

AddBudgetTable ==
    /\ pc = "add_budget_table"
    /\ document' = IF data = None THEN document
                   ELSE document \o BudgetTableBlocks(data)
    /\ pc' = StepAfter("add_budget_table")
    /\ UNCHANGED <<fs, today, output_arg, output_file, probes, excel, md_files,
                   data, key_points, chart_result, figures, success, exit_code,
                   runs>>

\* add_key_points; an error it raises is caught nowhere and ends the process
AddKeyPoints ==
    /\ pc = "add_key_points"
    /\ LET heading == <<Heading(<<Word("Key Findings")>>, 1)>>
           r == KeyPoints(data)
       IN  /\ data' = r.data
           /\ key_points' = r.key_points
           /\ IF r.raised
              THEN /\ document' = document \o heading
                   /\ pc' = "crashed"
              ELSE /\ document' = document \o heading
                          \o MarkdownBlocks("key_points.md",
                                            DefaultKeyPoints(r.key_points))
                   /\ pc' = StepAfter("add_key_points")
    /\ UNCHANGED <<fs, today, output_arg, output_file, probes, excel, md_files,
                   chart_result, figures, success, exit_code, runs>>

\* add_budget_chart.  plot raises before it makes a figure when a column it
\* is given is missing or there is no row; once the figure is made, a later
\* call of the try block (savefig, add_picture) succeeds or raises, and
\* plt.close() is reached only when none raised.
AddBudgetChart ==
    /\ pc = "add_budget_chart"
    /\ LET blocks == <<Heading(<<Word("Budget Visualization")>>, 1)>>
                         \o MarkdownBlocks("chart_description.md", chart_desc)
       IN  IF data = None
           THEN /\ chart_result' = "False"
                /\ UNCHANGED <<document, figures>>
           ELSE IF ~Plottable(data)
           THEN /\ document' = document \o blocks
                /\ chart_result' = "False"
                /\ UNCHANGED figures
           ELSE \E rendered \in BOOLEAN :
                    IF rendered
                    THEN /\ document' = document \o blocks \o <<Image>>
                         /\ chart_result' = "True"
                         /\ figures' = (figures + 1) - 1
                    ELSE /\ document' = document \o blocks
                         /\ chart_result' = "False"
                         /\ figures' = figures + 1
    /\ pc' = StepAfter("add_budget_chart")
    /\ UNCHANGED <<fs, today, output_arg, output_file, probes, excel, md_files,
                   data, key_points, success, exit_code, runs>>

\* save_document, and generate_report's return success
SaveDocument ==
    /\ pc = "save_document"
    /\ \E written \in BOOLEAN :
           /\ fs' = IF written THEN fs \cup {output_file} ELSE fs
           /\ success' = written
    /\ pc' = StepAfter("save_document")
    /\ UNCHANGED <<today, output_arg, output_file, probes, excel, md_files,
                   data, document, key_points, chart_result, figures, exit_code,
                   runs>>

\* main: return 0 if success else 1
Return ==
    /\ pc = "return"
    /\ exit_code' = IF success THEN 0 ELSE 1
    /\ pc' = "idle"
    /\ UNCHANGED <<fs, today, output_arg, output_file, probes, excel, md_files,
                   data, document, key_points, chart_result, figures, success,
                   runs>>

\* one call of add_markdown_content(filename) on an empty document
AddMarkdownContent ==
    /\ pc = "markdown"
    /\ document' = document \o MarkdownBlocks("introduction.md", <<>>)
    /\ pc' = "markdown_done"
    /\ UNCHANGED <<fs, today, output_arg, output_file, probes, excel, md_files,
                   data, key_points, chart_result, figures, success, exit_code,
                   runs>>

\* ---------------------------------------------------------- specifications

InitCommon ==
    /\ pc = "idle"
    /\ fs = {}
    /\ today = ""
    /\ output_arg = NoName
    /\ output_file = NoPath
    /\ probes = 0
    /\ data = None
    /\ document = <<>>
    /\ key_points = <<>>
    /\ chart_result = "none"
    /\ figures = 0
    /\ success = FALSE
    /\ exit_code = -1
    /\ runs = 0

\* The report pipeline on every workbook, with the auto-generated output name,
\* in a reports/ directory that only this program writes.
Init ==
    /\ InitCommon
    /\ excel \in Tables \cup {Missing}
    /\ md_files \in Overrides

Next ==
    \/ Construct({}, {"2025-01-25"})
    \/ LoadData
    \/ CreateDocument
    \/ AddIntroduction
    \/ AddBudgetTable
    \/ AddKeyPoints
    \/ AddBudgetChart
    \/ SaveDocument
    \/ Return

Spec == Init /\ [][Next]_vars

\* The choice of the output path, in a reports/ directory other programs
\* write to as well; the workbook is scenario A.
InitNamer ==
    /\ InitCommon
    /\ excel = ScenarioA
    /\ md_files = NoOverrides

NextNamer ==
    \/ EnvCreate
    \/ EnvFill
    \/ Construct(CustomNames, Dates)
    \/ LoadData
    \/ CreateDocument
    \/ AddIntroduction
    \/ AddBudgetTable
    \/ AddKeyPoints
    \/ AddBudgetChart
    \/ SaveDocument
    \/ Return

SpecNamer == InitNamer /\ [][NextNamer]_vars

\* add_markdown_content on the texts of Contents
InitMarkdown ==
    /\ pc = "markdown"
    /\ fs = {}
    /\ today = ""
    /\ output_arg = NoName
    /\ output_file = NoPath
    /\ probes = 0
    /\ excel = Missing
    /\ md_files \in {[NoOverrides EXCEPT !["introduction.md"] = File(c)] :
                        c \in Contents}
    /\ data = None
    /\ document = <<>>
    /\ key_points = <<>>
    /\ chart_result = "none"
    /\ figures = 0
    /\ success = FALSE
    /\ exit_code = -1
    /\ runs = 0

NextMarkdown == AddMarkdownContent

SpecMarkdown == InitMarkdown /\ [][NextMarkdown]_vars

\* ------------------------------------------------------------------ claims

\* __init__ has just returned: nothing has touched reports/ since it chose
\* self.output_file
Constructed == pc = "load_data"

\* C1: existing reports are never overwritten: the output path __init__
\* chooses, for the dated name or for a caller's name, is a path at which no
\* file exists when it is chosen.
C1_NeverOverwritesExisting == Constructed => output_file \notin fs

\* the version numbers 2 .. 100 whose candidate does not exist
FreeVersions(base) == {k \in 2..100 : Versioned(base, k) \notin fs}

\* C2: _get_unique_filename returns the base path when it does not exist;
\* otherwise the _vK candidate of the smallest free K >= 2; and the
\* timestamp fallback only after 100 probes have failed, never while a
\* lower-numbered candidate among those probed is free.
C2_UniqueFilename ==
    (Constructed /\ output_arg = NoName) =>
        LET base == BasePath(today)
            free == FreeVersions(base)
        IN  /\ base \notin fs => output_file = base /\ probes = 0
            /\ (base \in fs /\ free # {}) =>
                   /\ output_file.ver \in free
                   /\ \A k \in free : output_file.ver <= k
                   /\ output_file = Versioned(base, output_file.ver)
            /\ (base \in fs /\ free = {}) =>
                   /\ \E t \in Times : output_file = Stamped(base, t)
                   /\ probes = 100
            /\ output_file.ts # "" =>
                   base \in fs /\ free = {} /\ probes = 100

\* C2, the fallback case: the base name and all of _v2 .. _v100 exist, and the
\* timestamp fallback was chosen
C2_FallbackReached ==
    /\ Constructed
    /\ output_arg = NoName
    /\ BasePath(today) \in fs
    /\ FreeVersions(BasePath(today)) = {}
    /\ output_file.ts # ""

\* C3: whenever add_budget_chart returned False, generate_report returns
\* False and main returns 1, even if the document was saved.
C3_ChartFailureFailsRun ==
    /\ (pc = "return" /\ chart_result = "False") => ~success
    /\ (pc = "idle" /\ chart_result = "False") => exit_code = 1

\* the totals of the summary paragraphs of the document
SummaryTotals ==
    {document[i].text[1].summary :
        i \in {j \in DOMAIN document :
                  /\ document[j].style = "Normal"
                  /\ Len(document[j].text) = 1
                  /\ "summary" \in DOMAIN document[j].text[1]}}

\* C4: when the Budgeted or the Remaining column is absent from the loaded
\* table, the summary paragraph reports total-budgeted 0, total-remaining 0
\* and utilization-rate 0, and the key findings are the generic set.
C4_MissingColumnZeroTotals ==
    (excel # Missing /\ data # None
       /\ ~(HasColumn(excel, "Budgeted") /\ HasColumn(excel, "Remaining"))) =>
        /\ \A t \in SummaryTotals :
               /\ t.total_budgeted = 0
               /\ t.total_remaining = 0
               /\ t.utilization_rate = 0
        /\ key_points # <<>> => key_points = GenericKeyPoints

\* C5: the Utilization% column add_key_points computes has one value per
\* table row, and its value is exactly 0 for every row whose Budgeted is 0.
C5_PerRowUtilizationZeroGuard ==
    (data # None /\ HasColumn(data, "Utilization%")) =>
        /\ Len(data.rows) = Len(excel.rows)
        /\ \A i \in 1..Len(data.rows) :
               data.rows[i].Budgeted = 0 => Util(data, i) = Fin(0)

\* C6: the key points are the four data-derived sentences only when at least
\* 2 rows remain after excluding the TOTALS row, and the four generic
\* statements otherwise; never a mix.
C6_InsightsAllOrNothing ==
    key_points # <<>> =>
        \/ key_points = GenericKeyPoints
        \/ /\ Len(key_points) = 4
           /\ \A i \in 1..4 : "insight" \in DOMAIN key_points[i]
           /\ Len(NonTotal(data)) >= 2

\* The rendering C7 describes of one paragraph group: a bullet list when
\* every non-blank line starts with a marker, else one Paragraph of the text.
ClaimedParagraph(rawpara) ==
    LET para == Strip(rawpara)
        lines == SplitLines(para)
        nonblank == SelectIdx([i \in 1..Len(lines) |-> Strip(lines[i]) # <<>>],
                              1, Len(lines))
    IN  IF para = <<>> THEN <<>>
        ELSE IF \A k \in 1..Len(nonblank) :
                    StartsWithBullet(Strip(lines[nonblank[k]]))
        THEN [k \in 1..Len(nonblank) |->
                 ListBullet(SubSeq(Strip(lines[nonblank[k]]), 3,
                                   Len(Strip(lines[nonblank[k]]))))]
        ELSE <<Paragraph(para)>>

ClaimedBlocks(text) ==
    LET paragraphs == SplitParagraphs(Strip(text))
    IN  Flatten([i \in 1..Len(paragraphs) |-> ClaimedParagraph(paragraphs[i])])

\* C7: add_markdown_content renders a paragraph group as a bullet list if
\* and only if every non-blank line of it starts with a marker; a group of
\* mixed lines becomes exactly one Paragraph of its full text.
C7_MixedGroupIsOneParagraph ==
    pc = "markdown_done" =>
        document = ClaimedBlocks(md_files["introduction.md"].text)

\* C8: for every table that loads, no section aborts the run with an
\* uncaught error.
C8_NoSectionAborts == pc # "crashed"

\* C9: every exit path of add_budget_chart closes the figure it created: no
\* figure is open after any number of runs.
C9_FiguresReleased == figures = 0

\* C10: the rendered budget table has exactly the columns of the table as
\* loaded; the Utilization% column add_key_points adds is never one of them.
C10_TableHasLoadedColumns ==
    \A i \in DOMAIN document :
        document[i].style = "Table Grid" => document[i].header = excel.columns

\* C10, the case in question: the table is in the document and add_key_points has since
\* added the Utilization% column to self.data
C10_TableThenDerivedColumn ==
    /\ data # None
    /\ HasColumn(data, "Utilization%")
    /\ ~HasColumn(excel, "Utilization%")
    /\ \E i \in DOMAIN document : document[i].style = "Table Grid"

====
